---- MODULE Spec2Model ----
(***************************************************************************)
(* Model of ts_scripts/install_dependencies.py: the driver                 *)
(* install_dependencies and the platform classes Common, Linux, Windows    *)
(* and Darwin.  Every subprocess.check_call is one step that appends its   *)
(* argv to `log` and either succeeds or raises (the run ends, status 1).   *)
(***************************************************************************)
EXTENDS Integers, Sequences, FiniteSets, TLC

VARIABLES
    os,                     \* platform.system()
    environment,            \* args.environment
    force,                  \* args.force
    nightly,                \* args.nightly_torch
    cuda_version,           \* args.cuda: 0 is None, i > 0 is CudaChoices[i]
    euid,                   \* os.geteuid()
    onPath,                 \* the binaries shutil.which finds
    brew_version,           \* what get_brew_version() returns
    sudo_cmd,               \* self.sudo_cmd
    requirements_file_path, \* the path install_dependencies computes
    pc,                     \* the statement the run is at
    log,                    \* the external commands invoked, with their outcome
    steps,                  \* the methods install_dependencies has called
    exit_status,            \* the process exit status, NotExited while running
    cwd,                    \* the working directory
    prevdir,                \* the directory Common.cd returns to
    files                   \* the files install_libgit2 creates that still exist

cfg == <<os, environment, force, nightly, cuda_version, euid, onPath, brew_version>>
fs == <<cwd, prevdir, files>>
vars == <<os, environment, force, nightly, cuda_version, euid, onPath, brew_version,
          sudo_cmd, requirements_file_path, pc, log, steps, exit_status, cwd, prevdir, files>>

\* ---------------------------------------------------------------- values

OsNames == {"Linux", "Windows", "Darwin"}

Environments == {"prod", "dev"}

CudaChoices == <<"cu92", "cu101", "cu102", "cu111", "cu113", "cu116", "cu117", "cu118">>

CudaValues == 0 .. Len(CudaChoices)

Probed == {"conda", "javac", "node", "wget"}

BrewVersions == {"N/A", "4.1.0"}

Euids == {0, 1000}

NotExited == 0 - 1

Unset == "<unset>"

RepoDir == "."

PyExe == "sys.executable"

\* ---------------------------------------------------------------- helpers

\* str(cuda_version) as an f-string formats it
PyStr(c) == IF c = 0 THEN "None" ELSE CudaChoices[c]

\* `if cuda_version:`
Truthy(c) == c # 0

\* platform.system().lower()
Lower(o) == CASE o = "Linux" -> "linux"
              [] o = "Windows" -> "windows"
              [] o = "Darwin" -> "darwin"

\* list(filter(None, argv))
FilterNone(argv) == SelectSeq(argv, LAMBDA a : a # "")

which(b) == b \in onPath

get_brew_version == brew_version

\* subprocess.check_call(argv): returns on exit status 0, else raises
\* CalledProcessError, which nothing catches
check_call(argv, ok, next) ==
    /\ log' = Append(log, [argv |-> argv, ok |-> ok])
    /\ IF ok
         THEN pc' = next /\ exit_status' = exit_status
         ELSE pc' = "exited" /\ exit_status' = 1

\* sys.exit(1), sys.exit("message") and an uncaught exception
sys_exit(code) ==
    /\ pc' = "exited"
    /\ exit_status' = code

goto(next) ==
    /\ pc' = next
    /\ exit_status' = exit_status

called(step) == steps' = Append(steps, step)

\* ---------------------------------------------------------------- driver

\* the dev-only steps run whatever the environment
DriverAfterInit_Always == "install_wget"

DriverAfterInit ==
    IF environment = "dev" THEN "install_wget" ELSE "check_for_jdk"

\* check_for_jdk left out of the sequence after the dev-only steps
DriverAfterNodePackages_SkipJdk ==
    IF os = "Linux" /\ environment = "dev" THEN "install_libgit2" ELSE "install_python_packages"

DriverAfterNodePackages ==
    IF os = "Linux" /\ environment = "dev" THEN "install_libgit2" ELSE "check_for_jdk"

\* the two requirements files swapped
RequirementsFilePath_Swapped(env) ==
    "requirements/" \o (IF env = "prod" THEN "developer.txt" ELSE "production.txt")

RequirementsFilePath(env) ==
    "requirements/" \o (IF env = "prod" THEN "production.txt" ELSE "developer.txt")

\* ---------------------------------------------------------------- constructors

Linux_init ==
    /\ pc = "construct" /\ os = "Linux"
    /\ sudo_cmd' = IF euid = 0 THEN "" ELSE sudo_cmd
    /\ IF force
         THEN \E ok \in BOOLEAN :
                check_call(FilterNone(<<sudo_cmd', "apt-get", "update">>), ok, DriverAfterInit)
         ELSE goto(DriverAfterInit) /\ UNCHANGED log
    /\ UNCHANGED <<cfg, fs, requirements_file_path, steps>>

Windows_init ==
    /\ pc = "construct" /\ os = "Windows"
    /\ sudo_cmd' = ""
    /\ goto(DriverAfterInit)
    /\ UNCHANGED <<cfg, fs, requirements_file_path, steps, log>>

Darwin_init ==
    /\ pc = "construct" /\ os = "Darwin"
    /\ goto(DriverAfterInit)
    /\ UNCHANGED <<cfg, fs, requirements_file_path, steps, log, sudo_cmd>>

\* ---------------------------------------------------------------- install_wget

\* subprocess.call in place of check_call: a failed apt-get is not raised
Linux_install_wget_Unchecked ==
    /\ pc = "install_wget" /\ os = "Linux"
    /\ called("install_wget")
    /\ IF ~which("wget") \/ force
         THEN \E ok \in BOOLEAN :
                /\ log' = Append(log, [argv |-> FilterNone(<<sudo_cmd, "apt-get", "install",
                                                             "-y", "wget">>),
                                       ok |-> ok])
                /\ goto("install_nodejs")
         ELSE goto("install_nodejs") /\ UNCHANGED log
    /\ UNCHANGED <<cfg, fs, requirements_file_path, sudo_cmd>>

Linux_install_wget ==
    /\ pc = "install_wget" /\ os = "Linux"
    /\ called("install_wget")
    /\ IF ~which("wget") \/ force
         THEN \E ok \in BOOLEAN :
                check_call(FilterNone(<<sudo_cmd, "apt-get", "install", "-y", "wget">>),
                           ok, "install_nodejs")
         ELSE goto("install_nodejs") /\ UNCHANGED log
    /\ UNCHANGED <<cfg, fs, requirements_file_path, sudo_cmd>>

Windows_install_wget ==
    /\ pc = "install_wget" /\ os = "Windows"
    /\ called("install_wget")
    /\ goto("install_nodejs")
    /\ UNCHANGED <<cfg, fs, requirements_file_path, sudo_cmd, log>>

Darwin_install_wget ==
    /\ pc = "install_wget" /\ os = "Darwin"
    /\ called("install_wget")
    /\ IF ~which("wget") \/ force
         THEN \E ok \in BOOLEAN :
                check_call(<<"brew", "install", "wget">>, ok, "install_nodejs")
         ELSE goto("install_nodejs") /\ UNCHANGED log
    /\ UNCHANGED <<cfg, fs, requirements_file_path, sudo_cmd>>

\* ---------------------------------------------------------------- install_nodejs

\* urlopen of the setup script (may raise), then `bash <tmp_file>`
Linux_install_nodejs ==
    /\ pc = "install_nodejs" /\ os = "Linux"
    /\ called("install_nodejs")
    /\ IF ~which("node") \/ force
         THEN \E fetched \in BOOLEAN :
                IF fetched
                  THEN \E ok \in BOOLEAN :
                         check_call(FilterNone(<<sudo_cmd, "bash", "tmp_file.name">>),
                                    ok, "nodejs_apt")
                  ELSE sys_exit(1) /\ UNCHANGED log
         ELSE goto("install_node_packages") /\ UNCHANGED log
    /\ UNCHANGED <<cfg, fs, requirements_file_path, sudo_cmd>>

Linux_install_nodejs_apt ==
    /\ pc = "nodejs_apt"
    /\ \E ok \in BOOLEAN :
         check_call(FilterNone(<<sudo_cmd, "apt-get", "install", "-y", "nodejs">>),
                    ok, "install_node_packages")
    /\ UNCHANGED <<cfg, fs, requirements_file_path, sudo_cmd, steps>>

Windows_install_nodejs ==
    /\ pc = "install_nodejs" /\ os = "Windows"
    /\ called("install_nodejs")
    /\ goto("install_node_packages")
    /\ UNCHANGED <<cfg, fs, requirements_file_path, sudo_cmd, log>>

Darwin_install_nodejs ==
    /\ pc = "install_nodejs" /\ os = "Darwin"
    /\ called("install_nodejs")
    /\ \E ok \in BOOLEAN :
         check_call(<<"brew", "unlink", "node">>, ok, "nodejs_brew_install")
    /\ UNCHANGED <<cfg, fs, requirements_file_path, sudo_cmd>>

Darwin_install_nodejs_install ==
    /\ pc = "nodejs_brew_install"
    /\ \E ok \in BOOLEAN :
         check_call(<<"brew", "install", "node@14">>, ok, "nodejs_brew_link")
    /\ UNCHANGED <<cfg, fs, requirements_file_path, sudo_cmd, steps>>

Darwin_install_nodejs_link ==
    /\ pc = "nodejs_brew_link"
    /\ \E ok \in BOOLEAN :
         check_call(<<"brew", "link", "--overwrite", "node@14">>, ok, "install_node_packages")
    /\ UNCHANGED <<cfg, fs, requirements_file_path, sudo_cmd, steps>>

\* ---------------------------------------------------------------- install_node_packages

Common_install_node_packages ==
    /\ pc = "install_node_packages" /\ os \in {"Linux", "Windows"}
    /\ called("install_node_packages")
    /\ \E ok \in BOOLEAN :
         check_call(FilterNone(<<sudo_cmd, "npm", "install", "-g", "newman",
                                 "newman-reporter-htmlextra", "markdown-link-check">>),
                    ok, DriverAfterNodePackages)
    /\ UNCHANGED <<cfg, fs, requirements_file_path, sudo_cmd>>

Darwin_install_node_packages ==
    /\ pc = "install_node_packages" /\ os = "Darwin"
    /\ called("install_node_packages")
    /\ \E ok \in BOOLEAN :
         check_call(FilterNone(<<sudo_cmd, "./ts_scripts/mac_npm_deps">>),
                    ok, DriverAfterNodePackages)
    /\ UNCHANGED <<cfg, fs, requirements_file_path, sudo_cmd>>

\* ---------------------------------------------------------------- install_libgit2

version == "1.3.0"

dirname == "libgit2-" \o version

tarballname == dirname \o ".tar.gz"

LibgitUrl == "https://github.com/libgit2/libgit2/archive/refs/tags/v" \o version \o ".tar.gz"

\* wget -O tarballname: the tarball exists once the download succeeded
Linux_install_libgit2 ==
    /\ pc = "install_libgit2"
    /\ called("install_libgit2")
    /\ \E ok \in BOOLEAN :
         /\ check_call(<<"wget", LibgitUrl, "-O", tarballname>>, ok, "libgit2_extract")
         /\ files' = IF ok THEN files \union {tarballname} ELSE files
    /\ UNCHANGED <<cfg, cwd, prevdir, requirements_file_path, sudo_cmd>>

\* tarfile.open(tarballname).extractall(): raises on a tarball it cannot read
Linux_install_libgit2_extract ==
    /\ pc = "libgit2_extract"
    /\ \E ok \in BOOLEAN :
         IF ok
           THEN goto("libgit2_cmake") /\ files' = files \union {dirname}
           ELSE sys_exit(1) /\ files' = files
    /\ UNCHANGED <<cfg, cwd, prevdir, requirements_file_path, sudo_cmd, log, steps>>

\* Common.cd, leaving the `with` block: the finally clause, on return and on raise
cd_exit(ok, stay) == cwd' = IF ok /\ stay THEN cwd ELSE prevdir

\* `with self.cd(dirname):` is entered, then cmake runs inside it
Linux_install_libgit2_cmake ==
    /\ pc = "libgit2_cmake"
    /\ prevdir' = cwd
    /\ \E ok \in BOOLEAN :
         /\ check_call(<<"cmake", ".">>, ok, "libgit2_make")
         /\ cwd' = IF ok THEN dirname ELSE prevdir'
    /\ UNCHANGED <<cfg, files, requirements_file_path, sudo_cmd, steps>>

Linux_install_libgit2_make ==
    /\ pc = "libgit2_make"
    /\ \E ok \in BOOLEAN :
         /\ check_call(<<"make">>, ok, "libgit2_make_install")
         /\ cd_exit(ok, TRUE)
    /\ UNCHANGED <<cfg, files, prevdir, requirements_file_path, sudo_cmd, steps>>

Linux_install_libgit2_make_install ==
    /\ pc = "libgit2_make_install"
    /\ \E ok \in BOOLEAN :
         /\ check_call(FilterNone(<<sudo_cmd, "make", "install">>), ok, "libgit2_cleanup")
         /\ cd_exit(ok, FALSE)
    /\ UNCHANGED <<cfg, files, prevdir, requirements_file_path, sudo_cmd, steps>>

\* shutil.rmtree(dirname); os.remove(tarballname)
Linux_install_libgit2_cleanup ==
    /\ pc = "libgit2_cleanup"
    /\ files' = files \ {dirname, tarballname}
    /\ goto("check_for_jdk")
    /\ UNCHANGED <<cfg, cwd, prevdir, requirements_file_path, sudo_cmd, log, steps>>

\* ---------------------------------------------------------------- check_for_jdk

Linux_check_for_jdk ==
    /\ pc = "check_for_jdk" /\ os = "Linux"
    /\ called("check_for_jdk")
    /\ IF ~which("javac") \/ force
         THEN sys_exit(1)
         ELSE goto("install_python_packages")
    /\ UNCHANGED <<cfg, fs, requirements_file_path, sudo_cmd, log>>

\* Windows stops when javac is missing, as Linux does
Windows_check_for_jdk_Required ==
    /\ pc = "check_for_jdk" /\ os = "Windows"
    /\ called("check_for_jdk")
    /\ IF ~which("javac")
         THEN sys_exit(1)
         ELSE goto("install_python_packages")
    /\ UNCHANGED <<cfg, fs, requirements_file_path, sudo_cmd, log>>

Windows_check_for_jdk ==
    /\ pc = "check_for_jdk" /\ os = "Windows"
    /\ called("check_for_jdk")
    /\ goto("install_python_packages")
    /\ UNCHANGED <<cfg, fs, requirements_file_path, sudo_cmd, log>>

Darwin_check_for_jdk ==
    /\ pc = "check_for_jdk" /\ os = "Darwin"
    /\ called("check_for_jdk")
    /\ IF ~which("javac") \/ force
         THEN IF get_brew_version = "N/A"
                THEN sys_exit(1) /\ UNCHANGED log
                ELSE \E ok \in BOOLEAN :
                       check_call(<<"brew", "install", "openjdk@17">>,
                                  ok, "install_python_packages")
         ELSE goto("install_python_packages") /\ UNCHANGED log
    /\ UNCHANGED <<cfg, fs, requirements_file_path, sudo_cmd>>

\* ---------------------------------------------------------------- install_python_packages

Pip(rest) == <<PyExe, "-m", "pip", "install">> \o rest

\* the Windows cu92 branch left out
UnsupportedCombination_DarwinOnly(o, c) == Truthy(c) /\ o = "Darwin"

UnsupportedCombination(o, c) ==
    Truthy(c) /\ (o = "Darwin" \/ (PyStr(c) = "cu92" /\ o = "Windows"))

TorchRequirements(o, c) ==
    IF Truthy(c)
      THEN "requirements/torch_" \o PyStr(c) \o "_" \o Lower(o) \o ".txt"
      ELSE "requirements/torch_" \o Lower(o) \o ".txt"

\* the nightly index of the cpu build, whatever --cuda says
NightlyIndexUrl_Cpu(c) == "https://download.pytorch.org/whl/nightly/" \o "cpu"

NightlyIndexUrl(c) == "https://download.pytorch.org/whl/nightly/" \o PyStr(c)

\* the conda step never taken
UseConda_Never == FALSE

UseConda == which("conda")

AfterRequirements == IF nightly THEN "pip_nightly" ELSE "return"

\* the driver computes the path, then calls install_python_packages, which
\* starts with the conda step
Common_install_python_packages ==
    /\ pc = "install_python_packages"
    /\ requirements_file_path' = RequirementsFilePath(environment)
    /\ called("install_python_packages")
    /\ IF UseConda
         THEN \E ok \in BOOLEAN :
                check_call(<<"conda", "install", "-y", "conda-build">>,
                           ok, "install_torch_packages")
         ELSE goto("install_torch_packages") /\ UNCHANGED log
    /\ UNCHANGED <<cfg, fs, sudo_cmd>>

Common_install_torch_packages ==
    /\ pc = "install_torch_packages"
    /\ IF UnsupportedCombination(os, cuda_version)
         THEN sys_exit(1) /\ UNCHANGED log
         ELSE \E ok \in BOOLEAN :
                check_call(Pip(<<"-U", "-r", TorchRequirements(os, cuda_version)>>),
                           ok, "pip_upgrade")
    /\ UNCHANGED <<cfg, fs, requirements_file_path, sudo_cmd, steps>>

Common_pip_upgrade ==
    /\ pc = "pip_upgrade"
    /\ \E ok \in BOOLEAN :
         check_call(Pip(<<"-U", "pip", "setuptools">>), ok, "pip_requirements")
    /\ UNCHANGED <<cfg, fs, requirements_file_path, sudo_cmd, steps>>

Common_pip_requirements ==
    /\ pc = "pip_requirements"
    /\ \E ok \in BOOLEAN :
         check_call(Pip(<<"-U", "-r", requirements_file_path>>), ok, AfterRequirements)
    /\ UNCHANGED <<cfg, fs, requirements_file_path, sudo_cmd, steps>>

Common_pip_nightly ==
    /\ pc = "pip_nightly"
    /\ \E ok \in BOOLEAN :
         check_call(Pip(<<"numpy", "--pre torch[dynamo]", "torchvision", "torchtext",
                          "torchaudio", "--force-reinstall", "--extra-index-url",
                          NightlyIndexUrl(cuda_version)>>),
                    ok, "return")
    /\ UNCHANGED <<cfg, fs, requirements_file_path, sudo_cmd, steps>>

\* install_dependencies returns and the script ends
main_return ==
    /\ pc = "return"
    /\ sys_exit(0)
    /\ UNCHANGED <<cfg, fs, requirements_file_path, sudo_cmd, steps, log>>

\* ---------------------------------------------------------------- specification

Init ==
    /\ os \in OsNames
    /\ environment \in Environments
    /\ force \in BOOLEAN
    /\ nightly \in BOOLEAN
    /\ cuda_version \in CudaValues
    /\ euid \in Euids
    /\ onPath \in SUBSET Probed
    /\ brew_version \in BrewVersions
    /\ sudo_cmd = "sudo"
    /\ requirements_file_path = Unset
    /\ pc = "construct"
    /\ log = <<>>
    /\ steps = <<>>
    /\ exit_status = NotExited
    /\ cwd = RepoDir
    /\ prevdir = Unset
    /\ files = {}

Next ==
    \/ Linux_init
    \/ Windows_init
    \/ Darwin_init
    \/ Linux_install_wget
    \/ Windows_install_wget
    \/ Darwin_install_wget
    \/ Linux_install_nodejs
    \/ Linux_install_nodejs_apt
    \/ Windows_install_nodejs
    \/ Darwin_install_nodejs
    \/ Darwin_install_nodejs_install
    \/ Darwin_install_nodejs_link
    \/ Common_install_node_packages
    \/ Darwin_install_node_packages
    \/ Linux_install_libgit2
    \/ Linux_install_libgit2_extract
    \/ Linux_install_libgit2_cmake
    \/ Linux_install_libgit2_make
    \/ Linux_install_libgit2_make_install
    \/ Linux_install_libgit2_cleanup
    \/ Linux_check_for_jdk
    \/ Windows_check_for_jdk
    \/ Darwin_check_for_jdk
    \/ Common_install_python_packages
    \/ Common_install_torch_packages
    \/ Common_pip_upgrade
    \/ Common_pip_requirements
    \/ Common_pip_nightly
    \/ main_return

Spec == Init /\ [][Next]_vars

TypeOK ==
    /\ pc \in STRING
    /\ exit_status \in {NotExited, 0, 1}
    /\ (pc = "exited") = (exit_status # NotExited)
    /\ cwd \in {RepoDir, dirname}
    /\ files \subseteq {dirname, tarballname}

\* ---------------------------------------------------------------- observations

IsPrefix(s, t) == Len(s) <= Len(t) /\ \A i \in DOMAIN s : s[i] = t[i]

\* the string s has the string t as a substring
Contains(s, t) ==
    \E i \in 1 .. (Len(s) - Len(t) + 1) : SubSeq(s, i, i + Len(t) - 1) = t

Mentions(argv, word) == \E j \in DOMAIN argv : argv[j] = word

IsPip(argv) == Len(argv) >= 3 /\ argv[2] = "-m" /\ argv[3] = "pip"

IsConda(argv) == argv[1] = "conda"

PipCalls == {i \in DOMAIN log : IsPip(log[i].argv)}

CondaCalls == {i \in DOMAIN log : IsConda(log[i].argv)}

NightlyCalls == {i \in PipCalls : Mentions(log[i].argv, "--extra-index-url")}

Called(step) == \E i \in DOMAIN steps : steps[i] = step

Succeeded == pc = "exited" /\ exit_status = 0

AllOk == \A i \in DOMAIN log : log[i].ok

\* ---------------------------------------------------------------- C1

DevLinuxOrder ==
    <<"install_wget", "install_nodejs", "install_node_packages", "install_libgit2",
      "check_for_jdk", "install_python_packages">>

\* C1: in a dev run on Linux the driver calls its steps in the order install_wget,
\* install_nodejs, install_node_packages, install_libgit2, check_for_jdk,
\* install_python_packages (the calls made so far are always a prefix of that
\* list, and a run in which every step succeeded made all six), and the
\* requirements file is requirements/developer.txt: requirements/production.txt
\* is neither computed nor passed to any command.
C1_DevLinuxOrder ==
    (os = "Linux" /\ environment = "dev") =>
        /\ IsPrefix(steps, DevLinuxOrder)
        /\ (Succeeded => steps = DevLinuxOrder)
        /\ requirements_file_path \in {Unset, "requirements/developer.txt"}
        /\ (Called("install_python_packages") =>
                requirements_file_path = "requirements/developer.txt")
        /\ \A i \in DOMAIN log : ~Mentions(log[i].argv, "requirements/production.txt")
        /\ (Succeeded => \E i \in DOMAIN log :
                            Mentions(log[i].argv, "requirements/developer.txt"))

C1_Witness == os = "Linux" /\ environment = "dev" /\ Succeeded

\* ---------------------------------------------------------------- C2

\* C2: on Linux and macOS check_for_jdk goes on to install a JDK through the OS
\* package manager exactly when javac is absent or force is set (on macOS the
\* missing-Homebrew stop counts as having gone on to the installation); with
\* javac present and force unset it installs nothing and the run continues to
\* install_python_packages.
C2_JdkInstallIffAbsentOrForced ==
    [][(pc = "check_for_jdk" /\ os \in {"Linux", "Darwin"}) =>
          /\ (~which("javac") \/ force) =>
                \/ Len(log') = Len(log) + 1
                \/ (os = "Darwin" /\ brew_version = "N/A")
          /\ (which("javac") /\ ~force) =>
                (log' = log /\ pc' = "install_python_packages")]_vars

\* ---------------------------------------------------------------- C3

\* C3 as stated: a successful run makes two pip invocations when nightly is
\* unset and exactly one more when it is set, the extra one with a nightly
\* index URL that contains the accelerator variant.
C3_Original ==
    Succeeded =>
        /\ Cardinality(PipCalls) = (IF nightly THEN 3 ELSE 2)
        /\ Cardinality(NightlyCalls) = (IF nightly THEN 1 ELSE 0)
        /\ \A i \in NightlyCalls :
              LET url == log[i].argv[Len(log[i].argv)]
              IN  Contains(url, "/nightly/") /\ Contains(url, PyStr(cuda_version))

\* C3 amended: a successful run makes three pip invocations when nightly is
\* unset (torch requirements, pip/setuptools upgrade, requirements file) and
\* exactly one more, the last command of the run, when nightly is set; that
\* invocation's index URL is a nightly URL ending in the accelerator variant
\* as formatted: the --cuda value when given, the text None when not.
C3_NightlyOneMorePip ==
    Succeeded =>
        /\ Cardinality(PipCalls) = (IF nightly THEN 4 ELSE 3)
        /\ Cardinality(NightlyCalls) = (IF nightly THEN 1 ELSE 0)
        /\ \A i \in NightlyCalls :
              LET argv == log[i].argv
                  url == argv[Len(argv)]
                  variant == IF cuda_version = 0 THEN "None" ELSE CudaChoices[cuda_version]
              IN  /\ i = Len(log)
                  /\ argv[Len(argv) - 1] = "--extra-index-url"
                  /\ Contains(url, "/nightly/")
                  /\ Len(url) > Len(variant)
                  /\ SubSeq(url, Len(url) - Len(variant), Len(url)) = "/" \o variant

C3_Witness == Succeeded /\ nightly /\ cuda_version = 0 /\ Cardinality(PipCalls) = 4

\* ---------------------------------------------------------------- C4

LibgitPcs ==
    {"libgit2_extract", "libgit2_cmake", "libgit2_make", "libgit2_make_install",
     "libgit2_cleanup"}

\* C4: once the tarball has been downloaded and extracted (cmake runs only
\* after that), the extracted directory and the tarball are both gone on
\* every path out of install_libgit2, a failing cmake, make or make install
\* included.
C4_CleanupOnEveryPath ==
    ((\E i \in DOMAIN log : log[i].argv = <<"cmake", ".">>) /\ pc \notin LibgitPcs) =>
        (dirname \notin files /\ tarballname \notin files)

\* ---------------------------------------------------------------- C5

Unsupported ==
    \/ (os = "Darwin" /\ cuda_version # 0)
    \/ (os = "Windows" /\ cuda_version # 0 /\ CudaChoices[cuda_version] = "cu92")

\* C5: on macOS with any accelerator variant, and on Windows with cu92,
\* install_torch_packages ends the process with a nonzero status and makes no
\* pip invocation: the run never gets past it and its log holds no pip command.
C5_UnsupportedExitsWithoutPip ==
    Unsupported =>
        /\ PipCalls = {}
        /\ pc \notin {"pip_upgrade", "pip_requirements", "pip_nightly", "return"}
        /\ exit_status # 0
        /\ (pc = "exited" => exit_status = 1)

C5_Witness ==
    /\ os = "Windows" /\ cuda_version # 0 /\ CudaChoices[cuda_version] = "cu92"
    /\ Called("install_python_packages") /\ pc = "exited" /\ AllOk

\* ---------------------------------------------------------------- C6

DevOnlySteps == {"install_wget", "install_nodejs", "install_node_packages", "install_libgit2"}

\* C6: a prod run, on every platform and for every force, accelerator and
\* nightly value, never calls install_wget, install_nodejs,
\* install_node_packages or install_libgit2, and runs none of their commands.
C6_ProdSkipsDevSteps ==
    environment = "prod" =>
        /\ \A i \in DOMAIN steps : steps[i] \notin DevOnlySteps
        /\ \A i \in DOMAIN log :
              /\ ~Mentions(log[i].argv, "npm")
              /\ ~Mentions(log[i].argv, "wget")
              /\ ~Mentions(log[i].argv, "nodejs")
              /\ ~Mentions(log[i].argv, "cmake")
        /\ files = {}

C6_Witness == environment = "prod" /\ Succeeded /\ force

\* ---------------------------------------------------------------- C7

\* C7: the first failure ends the run: a failed command is the last command
\* of the log and the run has then ended with a nonzero status, no command is
\* run twice, nothing happens after the process has exited, and the status is
\* 0 only if every command succeeded, no explicit exit was due and the last
\* step, install_python_packages, ran to its end.
C7_FailFast ==
    /\ [](/\ \A i \in DOMAIN log :
                ~log[i].ok => (i = Len(log) /\ pc = "exited" /\ exit_status = 1)
          /\ \A i, j \in DOMAIN log : log[i].argv = log[j].argv => i = j
          /\ \A i, j \in DOMAIN steps : steps[i] = steps[j] => i = j
          /\ (exit_status = 0 =>
                /\ pc = "exited"
                /\ AllOk
                /\ steps # <<>> /\ steps[Len(steps)] = "install_python_packages"
                /\ Cardinality(PipCalls) >= 3
                /\ ~Unsupported
                /\ (os = "Linux" => (which("javac") /\ ~force))
                /\ ((os = "Darwin" /\ (~which("javac") \/ force)) => brew_version # "N/A")))
    /\ [][pc = "exited" => UNCHANGED vars]_vars

C7_Witness ==
    /\ pc = "exited" /\ exit_status = 1
    /\ log # <<>> /\ ~log[Len(log)].ok
    /\ steps # <<>> /\ steps[Len(steps)] = "install_wget"

\* ---------------------------------------------------------------- C8

\* C8 as stated: on Windows with javac absent, check_for_jdk fails the run
\* and install_python_packages is not reached.
C8_Original ==
    (os = "Windows" /\ ~which("javac")) =>
        /\ ~Called("install_python_packages")
        /\ pc # "install_python_packages"

\* C8 amended: on Windows check_for_jdk is a no-op: with javac absent (or
\* present) it neither fails the run nor runs a command, and the run
\* continues to install_python_packages.
C8_WindowsNoJdkCheck ==
    [][(os = "Windows" /\ pc = "check_for_jdk") =>
          (pc' = "install_python_packages" /\ exit_status' = NotExited /\ log' = log)]_vars

C8_Witness == os = "Windows" /\ ~which("javac") /\ Called("install_python_packages")

\* ---------------------------------------------------------------- C9

PythonPcs ==
    {"install_torch_packages", "pip_upgrade", "pip_requirements", "pip_nightly", "return"}

\* C9: on every platform and in both environments, a run that reaches
\* install_python_packages has called check_for_jdk before it, and every conda
\* or pip invocation comes after check_for_jdk and after the command
\* check_for_jdk itself runs.
C9_JdkCheckBeforePackages ==
    /\ (pc \in PythonPcs \union {"install_python_packages"} \/ Called("install_python_packages")
          \/ PipCalls # {} \/ CondaCalls # {} \/ Succeeded)
        => Called("check_for_jdk")
    /\ \A i, j \in DOMAIN steps :
          (steps[i] = "check_for_jdk" /\ steps[j] = "install_python_packages") => i < j
    /\ \A i \in DOMAIN log : \A j \in PipCalls \union CondaCalls :
          Mentions(log[i].argv, "openjdk@17") => i < j

C9_Witness == Called("check_for_jdk") /\ PipCalls # {} /\ environment = "prod"

\* ---------------------------------------------------------------- C10

\* C10: with conda on the search path, `conda install conda-build` is run
\* before every pip invocation and before install_torch_packages makes its
\* unsupported-combination check; with conda absent no conda command is run.
C10_CondaFirst ==
    /\ ~which("conda") => CondaCalls = {}
    /\ which("conda") =>
          /\ \A j \in PipCalls : \E i \in CondaCalls : i < j
          /\ (pc \in PythonPcs => CondaCalls # {})
          /\ ((Called("install_python_packages") /\ AllOk) => CondaCalls # {})
          /\ Cardinality(CondaCalls) <= 1

C10_Witness == which("conda") /\ PipCalls # {} /\ CondaCalls # {}

====
